---- MODULE Spec2Model ----
(***************************************************************************)
(* A model of extract_table.py: the page-range resolver, the cell/table    *)
(* cleaner, the column normaliser, the CSV writer's row ordering and the   *)
(* control flow of main() and extract_tables().                            *)
(*                                                                         *)
(* A Python str is a sequence of one-character strings.  None is a value   *)
(* that is no str.  An Optional int / Optional list is a sequence of       *)
(* length at most one: <<>> is None and <<x>> is the value x.              *)
(***************************************************************************)
EXTENDS Integers, Sequences, FiniteSets, TLC

VARIABLES
    fn, arg, ret,            \* a function under study, its arguments, its result
    entry,                   \* "main" (the script) or "extract_tables" (a direct call)
    pdf_is_file,             \* os.path.isfile(pdf_path)
    doc,                     \* the document: per page, the raw tables the locator returns
    args_pages,              \* args.pages: None or a str
    header_row,              \* <<>> or <<h>>
    pages,                   \* <<>> (None) or <<list of 0-based page indices>>
    pc,                      \* position in main / extract_tables
    total,                   \* main's total
    total_pages, target_pages, page_pos, tables, t_idx,
    table_count, normalized, output_path,
    handles,                 \* document handles currently open
    open_calls,              \* calls of pdfplumber.open so far
    io_unheld,               \* a page was read or a CSV written while no handle was open
    output_dir_made,         \* os.makedirs(output_dir) has run
    written,                 \* the CSV writes performed, in order
    returned,                \* <<>> or <<the value extract_tables returned>>
    exit_status,             \* -1 while running, else the process's exit status
    stderr                   \* "" or the diagnostic on stderr

fnVars == <<fn, arg, ret>>

inputVars == <<entry, pdf_is_file, doc, args_pages, header_row>>

localVars == <<pages, pc, total, total_pages, target_pages, page_pos, tables, t_idx,
               table_count, normalized, output_path>>

envVars == <<handles, open_calls, io_unheld, output_dir_made, written, returned,
             exit_status, stderr>>

vars == <<fnVars, inputVars, localVars, envVars>>

(* ------------------------------ bounds --------------------------------- *)

MaxStrLen == 5

MaxTotal == 3

MaxCellLen == 4

MaxRows == 3

MaxCols == 2

MaxPages == 2

MaxTablesOnPage == 2

MaxTargets == 2

(* ------------------------- Python str helpers -------------------------- *)

None == <<"None">>

Digits == {"0", "1", "2", "3"}

Whitespace == {" ", "\n"}

RangeChars == Digits \cup {"-", ",", " "}

RECURSIVE SeqsUpTo(_, _)
SeqsUpTo(alphabet, n) ==
    IF n = 0 THEN {<<>>}
    ELSE LET shorter == SeqsUpTo(alphabet, n - 1)
         IN  shorter \cup {Append(s, c) : s \in {t \in shorter : Len(t) = n - 1}, c \in alphabet}

RECURSIVE lstrip(_)
lstrip(s) ==
    IF s # <<>> /\ Head(s) \in Whitespace THEN lstrip(Tail(s)) ELSE s

RECURSIVE rstrip(_)
rstrip(s) ==
    IF s # <<>> /\ s[Len(s)] \in Whitespace THEN rstrip(SubSeq(s, 1, Len(s) - 1)) ELSE s

strip(s) == rstrip(lstrip(s))

(* s.split(sep): the fields between occurrences of the one-character sep,  *)
(* empty fields included; "".split(",") is [""].                           *)
RECURSIVE split(_, _)
split(s, sep) ==
    IF \E i \in 1..Len(s) : s[i] = sep
    THEN LET i == CHOOSE k \in 1..Len(s) : s[k] = sep /\ \A j \in 1..(k - 1) : s[j] # sep
         IN  <<SubSeq(s, 1, i - 1)>> \o split(SubSeq(s, i + 1, Len(s)), sep)
    ELSE <<s>>

(* s.split(sep, 1) for an s that contains sep: the text before the first   *)
(* sep and everything after it.                                            *)
split1(s, sep) ==
    LET i == CHOOSE k \in 1..Len(s) : s[k] = sep /\ \A j \in 1..(k - 1) : s[j] # sep
    IN  <<SubSeq(s, 1, i - 1), SubSeq(s, i + 1, Len(s))>>

contains(s, c) == \E i \in 1..Len(s) : s[i] = c

DigitVal(c) ==
    CASE c = "0" -> 0 [] c = "1" -> 1 [] c = "2" -> 2 [] c = "3" -> 3

RECURSIVE DecVal(_)
DecVal(ds) ==
    IF ds = <<>> THEN 0
    ELSE 10 * DecVal(SubSeq(ds, 1, Len(ds) - 1)) + DigitVal(ds[Len(ds)])

IsDigits(s) == s # <<>> /\ \A i \in 1..Len(s) : s[i] \in Digits

(* int(s): surrounding whitespace is ignored, one leading sign is allowed, *)
(* the rest must be decimal digits; anything else raises ValueError.       *)
int(s) ==
    LET t == strip(s)
        neg == t # <<>> /\ Head(t) = "-"
        body == IF neg THEN Tail(t) ELSE t
    IN  IF IsDigits(body)
        THEN [raised |-> FALSE, val |-> IF neg THEN 0 - DecVal(body) ELSE DecVal(body)]
        ELSE [raised |-> TRUE, val |-> 0]

Max2(a, b) == IF a >= b THEN a ELSE b

Min2(a, b) == IF a <= b THEN a ELSE b

(* range(lo, hi) as a list *)
range(lo, hi) == [i \in 1..Max2(hi - lo, 0) |-> lo + i - 1]

SeqSet(s) == {s[i] : i \in 1..Len(s)}

(* sorted(set(xs)) *)
RECURSIVE SortedOf(_)
SortedOf(S) ==
    IF S = {} THEN <<>>
    ELSE LET m == CHOOSE x \in S : \A y \in S : x <= y
         IN  <<m>> \o SortedOf(S \ {m})

sorted_set(xs) == SortedOf(SeqSet(xs))

(* ---------------------------- parse_page_range ------------------------- *)

(* ParsePart without the clamp of a range's start to page 1 *)
ParsePartUnclampedStart(rawpart, totalPages) ==
    LET part == strip(rawpart)
    IN  IF contains(part, "-")
        THEN LET se == split1(part, "-")
                 s == int(se[1])
                 e == int(se[2])
             IN  IF s.raised \/ e.raised
                 THEN [raised |-> TRUE, pages |-> <<>>]
                 ELSE [raised |-> FALSE,
                       pages |-> range(s.val - 1, Min2(totalPages, e.val))]
        ELSE LET n == int(part)
             IN  IF n.raised
                 THEN [raised |-> TRUE, pages |-> <<>>]
                 ELSE [raised |-> FALSE,
                       pages |-> IF 1 <= n.val /\ n.val <= totalPages
                                 THEN <<n.val - 1>> ELSE <<>>]

(* One iteration of the loop over the comma-separated parts: the pages it  *)
(* appends, or the ValueError of int().                                    *)
ParsePart(rawpart, totalPages) ==
    LET part == strip(rawpart)
    IN  IF contains(part, "-")
        THEN LET se == split1(part, "-")
                 s == int(se[1])
                 e == int(se[2])
             IN  IF s.raised \/ e.raised
                 THEN [raised |-> TRUE, pages |-> <<>>]
                 ELSE [raised |-> FALSE,
                       pages |-> range(Max2(1, s.val) - 1, Min2(totalPages, e.val))]
        ELSE LET n == int(part)
             IN  IF n.raised
                 THEN [raised |-> TRUE, pages |-> <<>>]
                 ELSE [raised |-> FALSE,
                       pages |-> IF 1 <= n.val /\ n.val <= totalPages
                                 THEN <<n.val - 1>> ELSE <<>>]

RECURSIVE ParseParts(_, _)
ParseParts(parts, totalPages) ==
    IF parts = <<>> THEN [raised |-> FALSE, pages |-> <<>>]
    ELSE LET first == ParsePart(Head(parts), totalPages)
             rest == ParseParts(Tail(parts), totalPages)
         IN  IF first.raised \/ rest.raised
             THEN [raised |-> TRUE, pages |-> <<>>]
             ELSE [raised |-> FALSE, pages |-> first.pages \o rest.pages]

parse_page_range(page_range_str, totalPages) ==
    LET r == ParseParts(split(page_range_str, ","), totalPages)
    IN  IF r.raised THEN r ELSE [raised |-> FALSE, pages |-> sorted_set(r.pages)]

(* ------------------------------ clean_cell ----------------------------- *)

(* text.split(): the maximal runs of non-whitespace characters *)
RECURSIVE words(_)
words(s) ==
    LET t == lstrip(s)
    IN  IF t = <<>> THEN <<>>
        ELSE LET n == IF \E k \in 1..Len(t) : t[k] \in Whitespace
                      THEN (CHOOSE k \in 1..Len(t) :
                               t[k] \in Whitespace /\ \A j \in 1..(k - 1) : t[j] \notin Whitespace) - 1
                      ELSE Len(t)
             IN  <<SubSeq(t, 1, n)>> \o words(SubSeq(t, n + 1, Len(t)))

(* sep.join(ws) *)
RECURSIVE join(_, _)
join(sep, ws) ==
    IF ws = <<>> THEN <<>>
    ELSE IF Len(ws) = 1 THEN ws[1]
    ELSE ws[1] \o sep \o join(sep, Tail(ws))

(* clean_cell that strips but does not collapse inner whitespace *)
clean_cell_strip_only(value) ==
    IF value = None THEN <<>> ELSE strip(value)

clean_cell(value) ==
    IF value = None THEN <<>>
    ELSE LET text == strip(value)
         IN  join(<<" ">>, words(text))

(* ------------------------------ clean_table ---------------------------- *)

RowIsKept(cleaned_row) == \E j \in 1..Len(cleaned_row) : cleaned_row[j] # <<>>

clean_row(row) == [j \in 1..Len(row) |-> clean_cell(row[j])]

(* clean_table that keeps a row only if all of its cells are non-empty *)
clean_table_all(table) ==
    SelectSeq([i \in 1..Len(table) |-> clean_row(table[i])],
              LAMBDA r : \A j \in 1..Len(r) : r[j] # <<>>)

clean_table(table) ==
    SelectSeq([i \in 1..Len(table) |-> clean_row(table[i])], RowIsKept)

(* ------------------------- normalize_column_count ---------------------- *)

MaxOf(S) == CHOOSE x \in S : \A y \in S : y <= x

(* normalize_column_count that pads to the width of the first row *)
normalize_to_first_row(table) ==
    IF table = <<>> THEN table
    ELSE LET max_cols == Len(table[1])
         IN  [i \in 1..Len(table) |->
                 table[i] \o [k \in 1..(max_cols - Len(table[i])) |-> <<>>]]

normalize_column_count(table) ==
    IF table = <<>> THEN table
    ELSE LET max_cols == MaxOf({Len(table[i]) : i \in 1..Len(table)})
         IN  [i \in 1..Len(table) |->
                 table[i] \o [k \in 1..(max_cols - Len(table[i])) |-> <<>>]]

(* -------------------------------- write_csv ---------------------------- *)

(* rows_to_write that leaves the header row in its original place too *)
RowsToWriteKeepHeader(rows, headerRow) ==
    IF headerRow # <<>> /\ 0 <= headerRow[1] /\ headerRow[1] < Len(rows)
    THEN <<rows[headerRow[1] + 1]>> \o rows
    ELSE rows

(* rows_to_write of write_csv; header_row is <<>> (None) or <<h>> *)
RowsToWrite(rows, headerRow) ==
    IF headerRow # <<>> /\ 0 <= headerRow[1] /\ headerRow[1] < Len(rows)
    THEN LET h == headerRow[1]
             header == rows[h + 1]
             data == SubSeq(rows, 1, h) \o SubSeq(rows, h + 2, Len(rows))
         IN  <<header>> \o data
    ELSE rows

(* ------------------- the program is not running ------------------------ *)

ProgramIdle ==
    /\ entry = "none" /\ pdf_is_file = FALSE /\ doc = <<>> /\ args_pages = None
    /\ header_row = <<>> /\ pages = <<>> /\ pc = "idle" /\ total = 0
    /\ total_pages = 0 /\ target_pages = <<>> /\ page_pos = 0 /\ tables = <<>>
    /\ t_idx = 0 /\ table_count = 0 /\ normalized = <<>> /\ output_path = <<>>
    /\ handles = 0 /\ open_calls = 0 /\ io_unheld = FALSE /\ output_dir_made = FALSE
    /\ written = <<>> /\ returned = <<>> /\ exit_status = -1 /\ stderr = ""

(* ------------------- specification: the page-range resolver ------------ *)

InitParse ==
    /\ fn = "input"
    /\ \E s \in SeqsUpTo(RangeChars, MaxStrLen), t \in 0..MaxTotal : arg = <<s, t>>
    /\ ret = [raised |-> FALSE, pages |-> <<>>]
    /\ ProgramIdle

CallParsePageRange ==
    /\ fn = "input"
    /\ fn' = "parse_page_range"
    /\ ret' = parse_page_range(arg[1], arg[2])
    /\ UNCHANGED <<arg, inputVars, localVars, envVars>>

NextParse == CallParsePageRange

SpecParse == InitParse /\ [][NextParse]_vars

(* ------------- specification: cleaner, normaliser, row ordering -------- *)

CellChars == {"a", " ", "\n"}

CellSamples == {None, <<" ", "\n">>, <<" ", "a", "\n", " ", "a">>}

HeaderRows == {<<>>} \cup {<<h>> : h \in (0 - 1)..MaxRows}

(* tables of up to MaxRows rows over the samples, and shorter ones that    *)
(* also have empty-string cells                                            *)
RawTables ==
    SeqsUpTo(SeqsUpTo(CellSamples, MaxCols), MaxRows)
        \cup SeqsUpTo(SeqsUpTo(CellSamples \cup {<<>>}, MaxCols), MaxRows - 1)

InitTable ==
    /\ fn = "input"
    /\ \/ arg \in [value : {None}, table : RawTables]
       \/ arg \in [value : SeqsUpTo(CellChars, MaxCellLen), table : {<<>>}]
    /\ ret = [text |-> <<>>, rows |-> <<>>, header_row |-> <<>>, arg_rows |-> <<>>]
    /\ ProgramIdle

CallCleanCell ==
    /\ fn = "input"
    /\ fn' = "clean_cell"
    /\ ret' = [ret EXCEPT !.text = clean_cell(arg.value)]
    /\ UNCHANGED <<arg, inputVars, localVars, envVars>>

CallCleanTable ==
    /\ fn = "input"
    /\ fn' = "clean_table"
    /\ ret' = [ret EXCEPT !.rows = clean_table(arg.table)]
    /\ UNCHANGED <<arg, inputVars, localVars, envVars>>

CallNormalizeColumnCount ==
    /\ fn = "input"
    /\ fn' = "normalize_column_count"
    /\ ret' = [ret EXCEPT !.rows = normalize_column_count(arg.table)]
    /\ UNCHANGED <<arg, inputVars, localVars, envVars>>

(* write_csv(rows, path, header_row): the rows written, and the caller's   *)
(* list after the call (slicing and + build new lists).                    *)
CallWriteCsv ==
    /\ fn = "input"
    /\ \E h \in HeaderRows :
          /\ fn' = "write_csv"
          /\ ret' = [ret EXCEPT !.rows = RowsToWrite(arg.table, h),
                                !.header_row = h,
                                !.arg_rows = arg.table]
    /\ UNCHANGED <<arg, inputVars, localVars, envVars>>

(* The body of extract_tables' loop over one raw table, up to the call of  *)
(* write_csv: either the table is skipped or `normalized` is handed over.  *)
ProcessTable ==
    /\ fn = "input"
    /\ LET cleaned == clean_table(arg.table)
       IN  IF cleaned = <<>>
           THEN /\ fn' = "skipped"
                /\ UNCHANGED ret
           ELSE /\ fn' = "handed_to_write_csv"
                /\ ret' = [ret EXCEPT !.rows = normalize_column_count(cleaned)]
    /\ UNCHANGED <<arg, inputVars, localVars, envVars>>

NextTableFns ==
    \/ CallCleanCell
    \/ CallCleanTable
    \/ CallNormalizeColumnCount
    \/ CallWriteCsv
    \/ ProcessTable

SpecTable == InitTable /\ [][NextTableFns]_vars

(* ======================= the program: main, extract_tables ============= *)

base_name == <<"d", "o", "c">>

DecimalDigits == <<"0", "1", "2", "3", "4", "5", "6", "7", "8", "9">>

(* str(n) for n >= 0 *)
RECURSIVE str(_)
str(n) ==
    IF n < 10 THEN <<DecimalDigits[n + 1]>>
    ELSE str(n \div 10) \o <<DecimalDigits[(n % 10) + 1]>>

(* a file name that leaves out the table's position on the page *)
FileNamePageOnly(page_idx, tIdx) ==
    base_name \o <<"_", "p", "a", "g", "e">> \o str(page_idx + 1) \o <<".", "c", "s", "v">>

(* f"{base_name}_page{page_idx + 1}_table{t_idx + 1}.csv" *)
FileName(page_idx, tIdx) ==
    base_name \o <<"_", "p", "a", "g", "e">> \o str(page_idx + 1)
              \o <<"_", "t", "a", "b", "l", "e">> \o str(tIdx + 1)
              \o <<".", "c", "s", "v">>

Table3x2 ==
    << <<<<"a">>, <<"b">>>>, <<<<"H">>, <<"I">>>>, <<<<"c">>, <<"d">>>> >>

TableBlank ==
    << <<None, <<" ">>>>, <<<<"\n">>>> >>

TableRagged ==
    << <<<<" ", "a", "\n", "b">>>>, <<None, None>>, <<None, <<"c">>>> >>

DocTables == {Table3x2, TableBlank, TableRagged}

Docs == SeqsUpTo(SeqsUpTo(DocTables, MaxTablesOnPage), MaxPages)

(* values of --pages: absent, and a sample of expressions *)
ArgPages ==
    {None, <<>>, <<"1">>, <<"2">>, <<"1", "-", "2">>, <<"0">>,
     <<"1", ",", ",", "2">>, <<"1", ",">>, <<"x">>, <<"-", "3">>, <<"2", "-">>}

ArgHeaderRows == {<<>>, <<1>>}

Terminal == {"done", "exited", "raised"}

Init ==
    /\ fn = "none" /\ arg = <<>> /\ ret = <<>>
    /\ entry \in {"main", "extract_tables"}
    /\ pdf_is_file \in BOOLEAN
    /\ doc \in IF pdf_is_file THEN Docs ELSE {<<>>}
    /\ header_row \in ArgHeaderRows
    /\ IF entry = "main"
       THEN args_pages \in ArgPages /\ pages = <<>>
       ELSE /\ args_pages = None
            /\ pages \in {<<>>} \cup {<<l>> : l \in SeqsUpTo(0..MaxPages, MaxTargets)}
    /\ pc = entry
    /\ total = 0 /\ total_pages = 0 /\ target_pages = <<>> /\ page_pos = 0
    /\ tables = <<>> /\ t_idx = 0 /\ table_count = 0 /\ normalized = <<>>
    /\ output_path = <<>>
    /\ handles = 0 /\ open_calls = 0 /\ io_unheld = FALSE /\ output_dir_made = FALSE
    /\ written = <<>> /\ returned = <<>> /\ exit_status = -1 /\ stderr = ""

(* an exception nobody catches: the interpreter prints a traceback and the *)
(* process ends with status 1                                              *)
Uncaught(exc) ==
    /\ pc' = "raised"
    /\ exit_status' = 1
    /\ stderr' = exc

(* main, lines 186-190: `if args.pages:` is false for None and for "" *)
MainParseArgs ==
    /\ pc = "main"
    /\ pc' = IF args_pages # None /\ args_pages # <<>> THEN "main_open" ELSE "extract_tables"
    /\ UNCHANGED <<fnVars, inputVars, pages, total, total_pages, target_pages, page_pos,
                   tables, t_idx, table_count, normalized, output_path, envVars>>

(* main, line 191: pdfplumber.open(args.pdf) *)
MainOpen ==
    /\ pc = "main_open"
    /\ open_calls' = open_calls + 1
    /\ IF pdf_is_file
       THEN /\ handles' = handles + 1
            /\ pc' = "main_total"
            /\ UNCHANGED <<exit_status, stderr>>
       ELSE /\ Uncaught("Traceback: FileNotFoundError")
            /\ UNCHANGED handles
    /\ UNCHANGED <<fnVars, inputVars, pages, total, total_pages, target_pages, page_pos,
                   tables, t_idx, table_count, normalized, output_path,
                   io_unheld, output_dir_made, written, returned>>

(* main, line 192: total = len(pdf.pages) *)
MainTotal ==
    /\ pc = "main_total"
    /\ total' = Len(doc)
    /\ io_unheld' = (io_unheld \/ handles = 0)
    /\ pc' = "main_close"
    /\ UNCHANGED <<fnVars, inputVars, pages, total_pages, target_pages, page_pos,
                   tables, t_idx, table_count, normalized, output_path,
                   handles, open_calls, output_dir_made, written, returned,
                   exit_status, stderr>>

(* main, the end of the with block of line 191 *)
MainClose ==
    /\ pc = "main_close"
    /\ handles' = handles - 1
    /\ pc' = "main_resolve"
    /\ UNCHANGED <<fnVars, inputVars, pages, total, total_pages, target_pages, page_pos,
                   tables, t_idx, table_count, normalized, output_path,
                   open_calls, io_unheld, output_dir_made, written, returned,
                   exit_status, stderr>>

(* main, lines 193-196 *)
MainResolve ==
    /\ pc = "main_resolve"
    /\ LET r == parse_page_range(args_pages, total)
       IN  IF r.raised
           THEN /\ Uncaught("Traceback: ValueError")
                /\ UNCHANGED pages
           ELSE IF r.pages = <<>>
           THEN /\ pages' = <<r.pages>>
                /\ stderr' = "Error: No valid pages in the specified range."
                /\ exit_status' = 1
                /\ pc' = "exited"
           ELSE /\ pages' = <<r.pages>>
                /\ pc' = "extract_tables"
                /\ UNCHANGED <<exit_status, stderr>>
    /\ UNCHANGED <<fnVars, inputVars, total, total_pages, target_pages, page_pos,
                   tables, t_idx, table_count, normalized, output_path,
                   handles, open_calls, io_unheld, output_dir_made, written, returned>>

(* extract_tables, lines 121-128 *)
ExtractTablesEnter ==
    /\ pc = "extract_tables"
    /\ IF ~pdf_is_file
       THEN /\ stderr' = "Error: File not found"
            /\ exit_status' = 1
            /\ pc' = "exited"
            /\ UNCHANGED <<output_dir_made, table_count>>
       ELSE /\ output_dir_made' = TRUE
            /\ table_count' = 0
            /\ pc' = "open"
            /\ UNCHANGED <<exit_status, stderr>>
    /\ UNCHANGED <<fnVars, inputVars, pages, total, total_pages, target_pages, page_pos,
                   tables, t_idx, normalized, output_path,
                   handles, open_calls, io_unheld, written, returned>>

(* extract_tables, line 130: with pdfplumber.open(pdf_path) as pdf *)
ExtractOpen ==
    /\ pc = "open"
    /\ open_calls' = open_calls + 1
    /\ handles' = handles + 1
    /\ pc' = "setup"
    /\ UNCHANGED <<fnVars, inputVars, pages, total, total_pages, target_pages, page_pos,
                   tables, t_idx, table_count, normalized, output_path,
                   io_unheld, output_dir_made, written, returned, exit_status, stderr>>

(* extract_tables, lines 131-137 *)
ExtractSetup ==
    /\ pc = "setup"
    /\ total_pages' = Len(doc)
    /\ io_unheld' = (io_unheld \/ handles = 0)
    /\ target_pages' = IF pages # <<>> THEN pages[1] ELSE range(0, Len(doc))
    /\ page_pos' = 1
    /\ pc' = "page_loop"
    /\ UNCHANGED <<fnVars, inputVars, pages, total, tables, t_idx, table_count,
                   normalized, output_path,
                   handles, open_calls, output_dir_made, written, returned,
                   exit_status, stderr>>

(* extract_tables, lines 139-147: the next page of the for loop, with      *)
(* page.extract_tables() returning the page's tables                       *)
NextPage ==
    /\ pc = "page_loop"
    /\ page_pos <= Len(target_pages)
    /\ LET page_idx == target_pages[page_pos]
       IN  IF page_idx >= total_pages
           THEN /\ page_pos' = page_pos + 1
                /\ UNCHANGED <<tables, t_idx, pc, io_unheld>>
           ELSE /\ tables' = doc[page_idx + 1]
                /\ io_unheld' = (io_unheld \/ handles = 0)
                /\ IF doc[page_idx + 1] = <<>>
                   THEN /\ page_pos' = page_pos + 1
                        /\ UNCHANGED <<t_idx, pc>>
                   ELSE /\ t_idx' = 0
                        /\ pc' = "table_loop"
                        /\ UNCHANGED page_pos
    /\ UNCHANGED <<fnVars, inputVars, pages, total, total_pages, target_pages,
                   table_count, normalized, output_path,
                   handles, open_calls, output_dir_made, written, returned,
                   exit_status, stderr>>

(* extract_tables, line 144: page.extract_tables() raises; the with block  *)
(* closes the document and the exception leaves extract_tables and main    *)
LocateFails ==
    /\ pc = "page_loop"
    /\ page_pos <= Len(target_pages)
    /\ target_pages[page_pos] < total_pages
    /\ io_unheld' = (io_unheld \/ handles = 0)
    /\ handles' = handles - 1
    /\ Uncaught("Traceback: table locator")
    /\ UNCHANGED <<fnVars, inputVars, pages, total, total_pages, target_pages, page_pos,
                   tables, t_idx, table_count, normalized, output_path,
                   open_calls, output_dir_made, written, returned>>

(* NextTable with the counter incremented for a skipped table too *)
NextTableCountsSkipped ==
    /\ pc = "table_loop"
    /\ IF t_idx >= Len(tables)
       THEN /\ page_pos' = page_pos + 1
            /\ pc' = "page_loop"
            /\ UNCHANGED <<t_idx, table_count, normalized, output_path>>
       ELSE LET cleaned == clean_table(tables[t_idx + 1])
            IN  IF cleaned = <<>>
                THEN /\ t_idx' = t_idx + 1
                     /\ table_count' = table_count + 1
                     /\ UNCHANGED <<page_pos, pc, normalized, output_path>>
                ELSE /\ normalized' = normalize_column_count(cleaned)
                     /\ table_count' = table_count + 1
                     /\ output_path' = FileName(target_pages[page_pos], t_idx)
                     /\ pc' = "write_csv"
                     /\ UNCHANGED <<page_pos, t_idx>>
    /\ UNCHANGED <<fnVars, inputVars, pages, total, total_pages, target_pages, tables,
                   envVars>>

(* extract_tables, lines 149-161: the next table of the page, up to the    *)
(* call of write_csv                                                       *)
NextTable ==
    /\ pc = "table_loop"
    /\ IF t_idx >= Len(tables)
       THEN /\ page_pos' = page_pos + 1
            /\ pc' = "page_loop"
            /\ UNCHANGED <<t_idx, table_count, normalized, output_path>>
       ELSE LET cleaned == clean_table(tables[t_idx + 1])
            IN  IF cleaned = <<>>
                THEN /\ t_idx' = t_idx + 1
                     /\ UNCHANGED <<page_pos, pc, table_count, normalized, output_path>>
                ELSE /\ normalized' = normalize_column_count(cleaned)
                     /\ table_count' = table_count + 1
                     /\ output_path' = FileName(target_pages[page_pos], t_idx)
                     /\ pc' = "write_csv"
                     /\ UNCHANGED <<page_pos, t_idx>>
    /\ UNCHANGED <<fnVars, inputVars, pages, total, total_pages, target_pages, tables,
                   envVars>>

(* extract_tables, line 163, and write_csv, lines 96-106 *)
WriteCsv ==
    /\ pc = "write_csv"
    /\ written' = Append(written, [path |-> output_path,
                                   rows |-> RowsToWrite(normalized, header_row)])
    /\ io_unheld' = (io_unheld \/ handles = 0)
    /\ t_idx' = t_idx + 1
    /\ pc' = "table_loop"
    /\ UNCHANGED <<fnVars, inputVars, pages, total, total_pages, target_pages, page_pos,
                   tables, table_count, normalized, output_path,
                   handles, open_calls, output_dir_made, returned, exit_status, stderr>>

(* WriteCsvFails without the release of the document *)
WriteCsvFailsLeaks ==
    /\ pc = "write_csv"
    /\ Uncaught("Traceback: OSError")
    /\ UNCHANGED <<fnVars, inputVars, pages, total, total_pages, target_pages, page_pos,
                   tables, t_idx, table_count, normalized, output_path,
                   handles, open_calls, io_unheld, output_dir_made, written, returned>>

(* write_csv, line 104: open(output_path, "w") raises OSError; the with    *)
(* block of extract_tables closes the document                             *)
WriteCsvFails ==
    /\ pc = "write_csv"
    /\ handles' = handles - 1
    /\ Uncaught("Traceback: OSError")
    /\ UNCHANGED <<fnVars, inputVars, pages, total, total_pages, target_pages, page_pos,
                   tables, t_idx, table_count, normalized, output_path,
                   open_calls, io_unheld, output_dir_made, written, returned>>

(* extract_tables: the for loop is exhausted, the with block ends *)
ExtractClose ==
    /\ pc = "page_loop"
    /\ page_pos > Len(target_pages)
    /\ handles' = handles - 1
    /\ pc' = "return"
    /\ UNCHANGED <<fnVars, inputVars, pages, total, total_pages, target_pages, page_pos,
                   tables, t_idx, table_count, normalized, output_path,
                   open_calls, io_unheld, output_dir_made, written, returned,
                   exit_status, stderr>>

(* extract_tables, line 168 *)
ExtractReturn ==
    /\ pc = "return"
    /\ returned' = <<table_count>>
    /\ pc' = IF entry = "main" THEN "report" ELSE "done"
    /\ UNCHANGED <<fnVars, inputVars, pages, total, total_pages, target_pages, page_pos,
                   tables, t_idx, table_count, normalized, output_path,
                   handles, open_calls, io_unheld, output_dir_made, written,
                   exit_status, stderr>>

(* main, lines 205-210, and the normal end of the script *)
MainReport ==
    /\ pc = "report"
    /\ exit_status' = 0
    /\ pc' = "done"
    /\ UNCHANGED <<fnVars, inputVars, pages, total, total_pages, target_pages, page_pos,
                   tables, t_idx, table_count, normalized, output_path,
                   handles, open_calls, io_unheld, output_dir_made, written, returned,
                   stderr>>

Next ==
    \/ MainParseArgs
    \/ MainOpen
    \/ MainTotal
    \/ MainClose
    \/ MainResolve
    \/ ExtractTablesEnter
    \/ ExtractOpen
    \/ ExtractSetup
    \/ NextPage
    \/ LocateFails
    \/ NextTable
    \/ WriteCsv
    \/ WriteCsvFails
    \/ ExtractClose
    \/ ExtractReturn
    \/ MainReport

Spec == Init /\ [][Next]_vars

(* ======================= claims: page-range resolver =================== *)

(* the comma-separated segments of s, by position *)
Segments(s) ==
    {SubSeq(s, i, j) : <<i, j>> \in
        {b \in (1..(Len(s) + 1)) \X (0..Len(s)) :
            /\ b[1] <= b[2] + 1
            /\ (b[1] = 1 \/ s[b[1] - 1] = ",")
            /\ (b[2] = Len(s) \/ s[b[2] + 1] = ",")
            /\ \A k \in b[1]..b[2] : s[k] # ","}}

Blanks(s) == \A i \in 1..Len(s) : s[i] = " "

(* seg is an unsigned decimal number, blanks around it allowed *)
SingleSegment(seg) ==
    /\ ~contains(seg, "-")
    /\ \E i \in 1..Len(seg), j \in 1..Len(seg) :
          /\ i <= j
          /\ Blanks(SubSeq(seg, 1, i - 1)) /\ Blanks(SubSeq(seg, j + 1, Len(seg)))
          /\ IsDigits(SubSeq(seg, i, j))

SingleValue(seg) == DecVal(SelectSeq(seg, LAMBDA c : c \in Digits))

RangeSegment(seg) ==
    \E k \in 1..Len(seg) :
        /\ seg[k] = "-"
        /\ SingleSegment(SubSeq(seg, 1, k - 1))
        /\ SingleSegment(SubSeq(seg, k + 1, Len(seg)))

RangeLow(seg) ==
    LET k == CHOOSE i \in 1..Len(seg) : seg[i] = "-" IN SingleValue(SubSeq(seg, 1, k - 1))

RangeHigh(seg) ==
    LET k == CHOOSE i \in 1..Len(seg) : seg[i] = "-" IN SingleValue(SubSeq(seg, k + 1, Len(seg)))

WellFormedRange(s) == \A seg \in Segments(s) : SingleSegment(seg) \/ RangeSegment(seg)

(* page p (1-based) is named by a single-number segment or lies in a range *)
PageNamed(s, p) ==
    \E seg \in Segments(s) :
        \/ SingleSegment(seg) /\ SingleValue(seg) = p
        \/ RangeSegment(seg) /\ RangeLow(seg) <= p /\ p <= RangeHigh(seg)

StrictlyAscending(xs) == \A i \in 1..(Len(xs) - 1) : xs[i] < xs[i + 1]

(* C1: for a well-formed page-range expression parse_page_range returns    *)
(* exactly the strictly ascending list of the indices p-1 of the pages     *)
(* 1 <= p <= total_pages named by a single-number segment or lying inside  *)
(* a range segment; every index lies in [0, total_pages).                  *)
C1_ResolverExact ==
    (fn = "parse_page_range" /\ WellFormedRange(arg[1])) =>
        /\ ~ret.raised
        /\ StrictlyAscending(ret.pages)
        /\ SeqSet(ret.pages) = {p - 1 : p \in {q \in 1..arg[2] : PageNamed(arg[1], q)}}
        /\ \A i \in 1..Len(ret.pages) : 0 <= ret.pages[i] /\ ret.pages[i] < arg[2]

(* "3,0-2" on a three-page document: a single page and a clamped range,    *)
(* given out of order, resolve to the indices 0, 1, 2.                     *)
C1_Witness ==
    /\ fn = "parse_page_range"
    /\ arg = <<<<"3", ",", "0", "-", "2">>, 3>>
    /\ ret = [raised |-> FALSE, pages |-> <<0, 1, 2>>]

(* ============================ claims: cleaning ========================= *)

BlankCell(c) == c = None \/ \A k \in 1..Len(c) : c[k] \in Whitespace

KeptRows(table) == {i \in 1..Len(table) : \E j \in 1..Len(table[i]) : ~BlankCell(table[i][j])}

(* C3: clean_table returns the cell-wise cleaned rows of exactly the input *)
(* rows that have a cell that is not null, empty or whitespace-only, in    *)
(* their original order and with their lengths unchanged.                  *)
C3_CleanTableKeepsNonEmptyRows ==
    fn = "clean_table" =>
        LET kept == SortedOf(KeptRows(arg.table))
        IN  /\ Len(ret.rows) = Len(kept)
            /\ \A m \in 1..Len(kept) :
                  /\ Len(ret.rows[m]) = Len(arg.table[kept[m]])
                  /\ \A j \in 1..Len(ret.rows[m]) :
                        ret.rows[m][j] = clean_cell(arg.table[kept[m]][j])

(* a three-row table whose middle row is dropped and whose outer rows stay *)
C3_Witness ==
    /\ fn = "clean_table"
    /\ Len(arg.table) = 3
    /\ KeptRows(arg.table) = {1, 3}
    /\ Len(arg.table[1]) = 1 /\ Len(arg.table[2]) = 2 /\ Len(arg.table[3]) = 2
    /\ Len(ret.rows) = 2

TidyText(t) ==
    /\ t # None
    /\ \A k \in 1..Len(t) : t[k] \in Whitespace => t[k] = " "
    /\ t # <<>> => t[1] # " " /\ t[Len(t)] # " "
    /\ \A k \in 1..(Len(t) - 1) : ~(t[k] = " " /\ t[k + 1] = " ")

(* C4: cleaning is idempotent: cleaning a cleaned table gives the same     *)
(* table and cleaning a cleaned cell the same cell; a cleaned cell has no  *)
(* leading or trailing whitespace and no whitespace run other than one     *)
(* space; a cleaned table has no all-empty row.                            *)
C4_CleaningIdempotent ==
    /\ fn = "clean_table" =>
          /\ clean_table(ret.rows) = ret.rows
          /\ \A i \in 1..Len(ret.rows) :
                /\ \E j \in 1..Len(ret.rows[i]) : ret.rows[i][j] # <<>>
                /\ \A j \in 1..Len(ret.rows[i]) : TidyText(ret.rows[i][j])
    /\ fn = "clean_cell" =>
          /\ clean_cell(ret.text) = ret.text
          /\ TidyText(ret.text)

(* a cell whose inner whitespace run was collapsed *)
C4_Witness ==
    /\ fn = "clean_cell"
    /\ arg.value = <<"a", " ", "\n", "a">>
    /\ ret.text = <<"a", " ", "a">>

(* ========================== claims: normalising ======================== *)

Widths(table) == {Len(table[i]) : i \in 1..Len(table)}

(* C5: normalize_column_count keeps the rows and their order, makes every  *)
(* row as long as the longest original row by appending empty strings      *)
(* only, is a no-op the second time and on the empty table; every table    *)
(* extract_tables hands to write_csv has rows of one length.               *)
C5_NormalizePadsToMaxWidth ==
    /\ fn = "normalize_column_count" =>
          /\ Len(ret.rows) = Len(arg.table)
          /\ \A i \in 1..Len(ret.rows) :
                /\ \A w \in Widths(arg.table) : w <= Len(ret.rows[i])
                /\ Len(ret.rows[i]) \in Widths(arg.table)
                /\ SubSeq(ret.rows[i], 1, Len(arg.table[i])) = arg.table[i]
                /\ \A j \in (Len(arg.table[i]) + 1)..Len(ret.rows[i]) : ret.rows[i][j] = <<>>
          /\ normalize_column_count(ret.rows) = ret.rows
          /\ arg.table = <<>> => ret.rows = <<>>
    /\ fn = "handed_to_write_csv" =>
          /\ ret.rows # <<>>
          /\ Cardinality(Widths(ret.rows)) = 1

(* a ragged table: a short row is padded *)
C5_Witness ==
    /\ fn = "normalize_column_count"
    /\ Len(arg.table) = 3
    /\ Len(arg.table[1]) = 0 /\ Len(arg.table[2]) = 2 /\ Len(arg.table[3]) = 1
    /\ Widths(ret.rows) = {2}

(* ============================ claims: write_csv ======================== *)

(* C6: with a header index h in bounds write_csv writes row h first and    *)
(* then the other rows in their original order, row h once; with h absent  *)
(* or out of bounds it writes the rows as they are; the caller's rows are  *)
(* not modified.                                                           *)
C6_HeaderRowPromoted ==
    fn = "write_csv" =>
        LET rows == arg.table
            out == ret.rows
            h == ret.header_row
        IN  /\ ret.arg_rows = rows
            /\ Len(out) = Len(rows)
            /\ IF h # <<>> /\ 0 <= h[1] /\ h[1] < Len(rows)
               THEN /\ out[1] = rows[h[1] + 1]
                    /\ \A k \in 1..Len(rows) :
                          /\ k <= h[1] => out[k + 1] = rows[k]
                          /\ k > h[1] + 1 => out[k] = rows[k]
               ELSE out = rows

(* header index 1 on three pairwise different rows *)
C6_Witness ==
    /\ fn = "write_csv"
    /\ ret.header_row = <<1>>
    /\ Len(arg.table) = 3
    /\ Cardinality({arg.table[1], arg.table[2], arg.table[3]}) = 3
    /\ ret.rows = <<arg.table[2], arg.table[1], arg.table[3]>>

(* ============================ claims: the program ====================== *)

Unparsable(s) == s # None /\ ~WellFormedRange(s)

(* C2: an empty or unparsable --pages value makes the resolver return an   *)
(* empty result, and main then ends with non-zero status and the "No valid *)
(* pages" diagnostic without running the extraction.                       *)
C2_UnparsableIsUsageError ==
    (entry = "main" /\ pdf_is_file /\ Unparsable(args_pages) /\ pc \in Terminal) =>
        /\ pages = <<<<>>>>
        /\ stderr = "Error: No valid pages in the specified range."
        /\ exit_status = 1
        /\ pc = "exited"
        /\ ~output_dir_made /\ written = <<>> /\ returned = <<>>

BlankTable(table) ==
    \A i \in 1..Len(table) : \A j \in 1..Len(table[i]) : BlankCell(table[i][j])

(* <<i, t>>: the t-th table of the page of the i-th target, where that     *)
(* page exists and the table is non-empty after cleaning                   *)
NonEmptyPositions ==
    {q \in (1..Len(target_pages)) \X (1..(MaxTablesOnPage + 1)) :
        /\ target_pages[q[1]] < total_pages
        /\ q[2] <= Len(doc[target_pages[q[1]] + 1])
        /\ ~BlankTable(doc[target_pages[q[1]] + 1][q[2]])}

(* the positions the loops have gone past *)
Passed(q) ==
    \/ q[1] < page_pos
    \/ q[1] = page_pos /\ pc = "table_loop" /\ q[2] <= t_idx
    \/ q[1] = page_pos /\ pc = "write_csv" /\ q[2] <= t_idx + 1

InPass == pc \in {"setup", "page_loop", "table_loop", "write_csv", "return"}

(* C7 as stated: at every point of an extraction pass the running counter  *)
(* equals the number of CSV writes performed so far.                       *)
C7_CounterEqualsWrites ==
    InPass => table_count = Len(written)

(* C7 amended: the counter is incremented just before the write of the     *)
(* table it counts, so it equals the number of writes performed plus the   *)
(* one write that is pending; between tables and at the end it equals the  *)
(* number of writes performed; skipped tables and pages leave it alone,    *)
(* and the value returned is the number of non-empty tables on the target  *)
(* pages below total_pages.                                                *)
C7_CounterTracksWrites ==
    /\ (InPass /\ pc # "write_csv") => table_count = Len(written)
    /\ pc = "write_csv" => table_count = Len(written) + 1
    /\ pc \in {"page_loop", "table_loop", "write_csv"} =>
          table_count = Cardinality({q \in NonEmptyPositions : Passed(q)})
    /\ returned # <<>> =>
          /\ returned[1] = Cardinality(NonEmptyPositions)
          /\ returned[1] = Len(written)

(* a blank table is skipped, the 3x2 table after it is written, the second *)
(* page has no table: one file, and 1 is returned                          *)
C7_Witness ==
    /\ pc = "done"
    /\ entry = "main"
    /\ doc = << <<TableBlank, Table3x2>>, <<>> >>
    /\ Len(written) = 1
    /\ returned = <<1>>

(* C8: when the input path is no existing regular file a run of the tool,  *)
(* with or without --pages, ends with non-zero status and the file-not-    *)
(* found diagnostic before the document is opened, without creating the    *)
(* output directory or writing a CSV file.                                 *)
C8_MissingFileFailsFast ==
    (entry = "main" /\ ~pdf_is_file /\ pc \in Terminal) =>
        /\ exit_status = 1
        /\ stderr = "Error: File not found"
        /\ pc = "exited"
        /\ open_calls = 0
        /\ ~output_dir_made /\ written = <<>>

(* C9: at most one document handle is open at any time, every page read    *)
(* and CSV write happens while it is open, and when the pass ends, by      *)
(* return or by an error of the locator or of a write, it is closed.       *)
C9_HandleScoped ==
    /\ handles \in {0, 1}
    /\ ~io_unheld
    /\ pc \in {"main_total", "main_close", "setup", "page_loop", "table_loop", "write_csv"}
          => handles = 1
    /\ pc \in Terminal \cup {"return", "report", "main_resolve"} => handles = 0

(* a write fails after main and extract_tables have each opened the        *)
(* document and one file has been written                                  *)
C9_Witness ==
    /\ pc = "raised"
    /\ stderr = "Traceback: OSError"
    /\ open_calls = 2
    /\ Len(written) = 1
    /\ handles = 0

Numerals == <<"1", "2", "3", "4", "5", "6", "7", "8", "9">>

ExpectedPath(page_no, table_no) ==
    <<"d", "o", "c", "_", "p", "a", "g", "e", Numerals[page_no],
      "_", "t", "a", "b", "l", "e", Numerals[table_no], ".", "c", "s", "v">>

DistinctTargets ==
    \A i \in 1..Len(target_pages), j \in 1..Len(target_pages) :
        i # j => target_pages[i] # target_pages[j]

WrittenPaths == {written[k].path : k \in 1..Len(written)}

(* C10: the table at position t of page index p is written to              *)
(* {basename}_page{p+1}_table{t+1}.csv, skipped tables consuming their     *)
(* position; with pairwise distinct target pages no two written tables     *)
(* share a path and the number of distinct files equals the count          *)
(* returned.                                                               *)
C10_OneFilePerTable ==
    /\ pc = "write_csv" =>
          output_path = ExpectedPath(target_pages[page_pos] + 1, t_idx + 1)
    /\ InPass =>
          WrittenPaths = {ExpectedPath(target_pages[q[1]] + 1, q[2]) :
                            q \in {r \in NonEmptyPositions :
                                     Passed(r) /\ ~(pc = "write_csv" /\ r = <<page_pos, t_idx + 1>>)}}
    /\ (InPass /\ DistinctTargets) =>
          \A i \in 1..Len(written), j \in 1..Len(written) :
              i # j => written[i].path # written[j].path
    /\ (returned # <<>> /\ DistinctTargets) => Cardinality(WrittenPaths) = returned[1]

(* two tables of page 1 and, after a skipped blank table, the second table *)
(* of page 2                                                               *)
C10_Witness ==
    /\ pc = "done"
    /\ returned = <<3>>
    /\ Len(written) = 3
    /\ written[1].path = ExpectedPath(1, 1)
    /\ written[2].path = ExpectedPath(1, 2)
    /\ written[3].path = ExpectedPath(2, 2)

====
